---- MODULE Spec2Model ----
(***************************************************************************)
(* Model of src/server.js: the health monitor (updateAllModelsHealth, run  *)
(* once at startup and then from setInterval), the shared table            *)
(* modelHealthStatus, and the POST /api/resolve-model handler.             *)
(*                                                                         *)
(* Time is in milliseconds and advances from one timer expiry to the next  *)
(* (discrete-event).  Everything the event loop runs between two timer     *)
(* expiries without yielding is one action: a probe's timer callback, the  *)
(* continuation of the await, the table write and the call that starts the *)
(* next probe are one step; the synchronous request handler is one step.   *)
(*                                                                         *)
(* Spec      is the program as shipped, with mockCheckLLMHealth.           *)
(* SpecProbe is the program with the probe replaced by an arbitrary        *)
(*           collaborator of the same shape {success, latency}: any        *)
(*           outcome, any duration.                                        *)
(* SpecFaulty is the program with a probe that may also reject or never    *)
(*           respond.                                                      *)
(* SpecLive  is Spec with the fairness of the event loop: a due timer      *)
(*           fires and time passes.                                        *)
(***************************************************************************)
EXTENDS Integers, Sequences, FiniteSets, TLC

VARIABLES
    listening,          \* the app.listen callback has run
    modelHealthStatus,  \* model name -> [status, latency]
    cycle,              \* cycle number -> one execution of updateAllModelsHealth
    started,            \* number of executions of updateAllModelsHealth started
    armed,              \* setInterval has been called
    tleft,              \* ms until the interval timer fires next
    exited,             \* the process has terminated on an unhandled rejection
    response,           \* the last request handled and the response sent
    lastWriter,         \* history: model name -> cycle that wrote its entry last
    lastCompleted       \* history: the cycle that completed last and its outcomes

vars == <<listening, modelHealthStatus, cycle, started, armed, tleft, exited,
          response, lastWriter, lastCompleted>>

----------------------------------------------------------------------------
(* Bounds *)

\* Executions of updateAllModelsHealth a behaviour may start (the initial one
\* and the periodic ones).  When the tick that would start one more is due,
\* the clock stops: no state shows a time the program could only reach with
\* that tick handled.
MaxCycles == 3

----------------------------------------------------------------------------
(* Configuration, src/server.js lines 6-8 *)

\* Faulty variants of the interval: 1000 ms and 100 ms.
IntervalTenthMutant == 10000 \div 10

IntervalHundredthMutant == 10000 \div 100

HEALTH_CHECK_INTERVAL_MS == 10000

LATENCY_THRESHOLD_MS == 1500

\* JavaScript null, the latency of an entry no probe has written.
Null == -1

----------------------------------------------------------------------------
(* In-memory state, src/server.js lines 14-33 *)

simulationConfigs ==
    [id \in {"sim-101-finance", "sim-202-engineering"} |->
        IF id = "sim-101-finance"
        THEN [id |-> id, name |-> "Financial Analyst Interview",
              primaryModel |-> "gpt-4o", secondaryModel |-> "claude-3-sonnet"]
        ELSE [id |-> id, name |-> "Software Engineer Interview",
              primaryModel |-> "claude-3-sonnet", secondaryModel |-> "gpt-4o"]]

\* The keys of modelHealthStatus in for-in (insertion) order.
ModelOrder == <<"gpt-4o", "claude-3-sonnet">>

Models == {ModelOrder[i] : i \in 1..Len(ModelOrder)}

\* Faulty variant: entries start HEALTHY.
InitialHealthMutant == [m \in Models |-> [status |-> "HEALTHY", latency |-> Null]]

InitialHealth == [m \in Models |-> [status |-> "UNKNOWN", latency |-> Null]]

----------------------------------------------------------------------------
(* The probe, src/server.js lines 43-60 *)

\* delay = 50 + Math.random() * 500, which setTimeout truncates to 50..549 ms:
\* the two ends and a value between.
MockDelays == {50, 300, 549}

\* What the timer callback resolves with: a failure with latency in
\* [5000, 6000), or a success with latency Math.round(100 + r * 400) in
\* 100..500.  The ends of each range.
MockOutcomes ==
    {[success |-> FALSE, latency |-> l] : l \in {5000, 5999}}
    \cup {[success |-> TRUE, latency |-> l] : l \in {100, 500}}

\* A probe collaborator of the documented shape {success, latency} that is not
\* the mock: it may take longer than the interval, and may report success with
\* a latency at or above the threshold.
AnyDelays == {100, HEALTH_CHECK_INTERVAL_MS + 2000}

AnyOutcomes ==
    [success : BOOLEAN,
     latency : {LATENCY_THRESHOLD_MS - 1, LATENCY_THRESHOLD_MS}]

\* The time left on the timer of a probe that never responds.
Never == 0 - 1

\* A probe collaborator that may never respond.
FaultyDelays == {100, Never}

----------------------------------------------------------------------------
(* Health monitoring, src/server.js lines 67-78 *)

\* Faulty variant: the threshold itself counts as healthy.
ClassifyInclusiveMutant(result) ==
    IF result.success /\ result.latency <= LATENCY_THRESHOLD_MS
    THEN [status |-> "HEALTHY", latency |-> result.latency]
    ELSE [status |-> "UNHEALTHY", latency |-> result.latency]

\* Faulty variant: a failed probe resets the entry to UNKNOWN.
ClassifyUnknownMutant(result) ==
    IF result.success /\ result.latency < LATENCY_THRESHOLD_MS
    THEN [status |-> "HEALTHY", latency |-> result.latency]
    ELSE [status |-> "UNKNOWN", latency |-> result.latency]

\* The entry the loop body assigns for a probe result (lines 70-76).
Classify(result) ==
    IF result.success /\ result.latency < LATENCY_THRESHOLD_MS
    THEN [status |-> "HEALTHY", latency |-> result.latency]
    ELSE [status |-> "UNHEALTHY", latency |-> result.latency]

\* Faulty variant: the status is updated in place and the latency is left.
NewEntryStatusOnlyMutant(old, result) ==
    [status |-> Classify(result).status, latency |-> old.latency]

\* The assignment modelHealthStatus[modelName] = {...} (lines 71 and 74): a
\* fresh object replaces the old entry, whatever it held.
NewEntry(old, result) == Classify(result)

NotStarted == [pc |-> "notStarted", idx |-> 0, rem |-> 0, got |-> <<>>]

\* The promise of the call is rejected: an error left the function.
Rejected == [pc |-> "rejected", idx |-> 0, rem |-> 0, got |-> <<>>]

Completed == [pc |-> "completed", idx |-> 0, rem |-> 0, got |-> <<>>]

\* The call updateAllModelsHealth(): the loop takes the first key and calls
\* the probe, whose timer is set to delay ms; the function then suspends.
StartCycle(c, delay) ==
    /\ cycle' = [cycle EXCEPT ![c] =
                    [pc |-> "awaiting", idx |-> 1, rem |-> delay, got |-> <<>>]]
    /\ started' = c

\* Faulty variant: the loop stops at the first failed probe.
LoopContinuesMutant(c, result) ==
    cycle[c].idx < Len(ModelOrder) /\ result.success

\* The for-in loop has a further key after the one cycle c just probed; the
\* result of that probe plays no part.
LoopContinues(c, result) == cycle[c].idx < Len(ModelOrder)

\* Cycles whose probe is in flight.
Awaiting == {c \in DOMAIN cycle : cycle[c].pc = "awaiting"}

\* Faulty variant: the continuation sees the last key of the loop, as it
\* would with a loop variable shared by all iterations.
ProbedModelLastKeyMutant(c) == ModelOrder[Len(ModelOrder)]

\* modelName in the iteration cycle c is in (line 68).
ProbedModel(c) == ModelOrder[cycle[c].idx]

\* Faulty variant: setInterval is never called.
ThenRunsNeverMutant(c, returned) == FALSE

\* Faulty variant: the callback is attached to the first probe, not the call.
ThenRunsEarlyMutant(c, returned) == c = 1

\* The callback of .then(() => setInterval(...)) runs (line 129): it is
\* attached to the initial call alone and runs when that call has returned.
ThenRuns(c, returned) == c = 1 /\ returned

\* The timer of cycle c's probe fires: the probe resolves with result, the
\* await resumes, the entry of the model is replaced, and the loop either
\* calls the probe for the next key or ends.  The initial call (c = 1) was
\* made with .then(() => setInterval(...)), which runs when it ends.
ProbeComplete(c, Outcomes, Delays) ==
    /\ ~exited
    /\ c \in Awaiting
    /\ cycle[c].rem = 0
    /\ \E result \in Outcomes :
        LET m   == ProbedModel(c)
            got == Append(cycle[c].got, result)
        IN  /\ modelHealthStatus' =
                 [modelHealthStatus EXCEPT ![m] = NewEntry(@, result)]
            /\ lastWriter' = [lastWriter EXCEPT ![m] = c]
            /\ IF LoopContinues(c, result)
               THEN /\ \E delay \in Delays :
                        cycle' = [cycle EXCEPT ![c] =
                                    [pc |-> "awaiting", idx |-> cycle[c].idx + 1,
                                     rem |-> delay, got |-> got]]
                    /\ UNCHANGED lastCompleted
               ELSE /\ cycle' = [cycle EXCEPT ![c] = Completed]
                    /\ lastCompleted' = [id |-> c, got |-> got]
            /\ IF ThenRuns(c, ~LoopContinues(c, result))
               THEN armed' = TRUE /\ tleft' = HEALTH_CHECK_INTERVAL_MS
               ELSE UNCHANGED <<armed, tleft>>
    /\ UNCHANGED <<listening, started, exited, response>>

\* The probe of cycle c rejects instead: the await throws, no try/catch is
\* around it, so the loop is left and the promise of the call is rejected.
\* Nothing is written.  No rejection handler is attached to that promise (the
\* initial call has a .then with no second argument, whose callback does not
\* run; setInterval discards it), so the rejection is unhandled: the process
\* terminates or only warns, by the version and flags of the runtime.
ProbeReject(c) ==
    /\ ~exited
    /\ c \in Awaiting
    /\ cycle[c].rem = 0
    /\ cycle' = [cycle EXCEPT ![c] = Rejected]
    /\ exited' \in BOOLEAN
    /\ UNCHANGED <<listening, modelHealthStatus, started, armed, tleft, response,
                   lastWriter, lastCompleted>>

----------------------------------------------------------------------------
(* Server initialization, src/server.js lines 125-133 *)

\* The app.listen callback: the initial call of updateAllModelsHealth.
AppListen(Delays) ==
    /\ ~exited
    /\ ~listening
    /\ listening' = TRUE
    /\ \E delay \in Delays : StartCycle(1, delay)
    /\ UNCHANGED <<modelHealthStatus, armed, tleft, exited, response, lastWriter,
                   lastCompleted>>

\* The interval timer fires: setInterval calls updateAllModelsHealth, whatever
\* the state of earlier calls, and the timer is due again one interval later.
Tick(Delays) ==
    /\ ~exited
    /\ armed
    /\ tleft = 0
    /\ started < MaxCycles
    /\ tleft' = HEALTH_CHECK_INTERVAL_MS
    /\ \E delay \in Delays : StartCycle(started + 1, delay)
    /\ UNCHANGED <<listening, modelHealthStatus, armed, exited, response, lastWriter,
                   lastCompleted>>

----------------------------------------------------------------------------
(* Time *)

\* Cycles whose probe will respond.
Timed == {c \in Awaiting : cycle[c].rem # Never}

\* The times left on the pending timers.
Pending == {cycle[c].rem : c \in Timed} \cup (IF armed THEN {tleft} ELSE {})

Min(S) == CHOOSE x \in S : \A y \in S : x <= y

\* No timer is due: time passes until the next one is.
Advance ==
    /\ ~exited
    /\ Pending # {}
    /\ 0 \notin Pending
    /\ LET d == Min(Pending)
       IN  /\ cycle' = [c \in DOMAIN cycle |->
                          IF c \in Timed
                          THEN [cycle[c] EXCEPT !.rem = @ - d]
                          ELSE cycle[c]]
           /\ tleft' = IF armed THEN tleft - d ELSE tleft
    /\ UNCHANGED <<listening, modelHealthStatus, started, armed, exited, response,
                   lastWriter, lastCompleted>>

----------------------------------------------------------------------------
(* API endpoint, src/server.js lines 87-121 *)

\* Property names every object inherits from Object.prototype: obj[key] finds
\* them when obj has no own property of that name.
ObjectPrototypeKeys == {"constructor", "toString", "__proto__"}

\* Request bodies: simulationId missing, empty, known, unknown, and a name
\* that Object.prototype defines.
RequestBodies ==
    {[present |-> FALSE, simulationId |-> ""]}
    \cup {[present |-> TRUE, simulationId |-> s] :
            s \in {"", "sim-101-finance", "sim-202-engineering",
                   "nonexistent", "constructor"}}

\* !simulationId: undefined and the empty string are falsy.
Falsy(body) == ~body.present \/ body.simulationId = ""

\* obj[key] on simulationConfigs: an own property, else one inherited from
\* Object.prototype, else undefined.
ConfigLookup(key) ==
    IF key \in DOMAIN simulationConfigs THEN "own"
    ELSE IF key \in ObjectPrototypeKeys THEN "inherited"
    ELSE "undefined"

\* Faulty variant: anything but UNHEALTHY counts as healthy.
IsHealthyMutant(health) == health.status # "UNHEALTHY"

\* health.status === 'HEALTHY' (line 102).
IsHealthy(health) == health.status = "HEALTHY"

\* The response of the healthy branch (lines 103-109).
PrimaryResponse(config, health) ==
    [code |-> 200,
     modelToUse |-> config.primaryModel,
     fallbackOccurred |-> FALSE,
     reason |-> <<"Primary model is healthy", config.primaryModel>>,
     details |-> health,
     lookups |-> {"simulationConfigs", "modelHealthStatus"}]

\* Faulty variant: the fallback branch returns the primary model.
FallbackResponseMutant(config, health) ==
    [code |-> 200,
     modelToUse |-> config.primaryModel,
     fallbackOccurred |-> TRUE,
     reason |-> <<"Primary model is unhealthy", config.primaryModel,
                  health.status, health.latency>>,
     details |-> health,
     lookups |-> {"simulationConfigs", "modelHealthStatus"}]

\* The response of the fallback branch (lines 111-119).
FallbackResponse(config, health) ==
    [code |-> 200,
     modelToUse |-> config.secondaryModel,
     fallbackOccurred |-> TRUE,
     reason |-> <<"Primary model is unhealthy", config.primaryModel,
                  health.status, health.latency>>,
     details |-> health,
     lookups |-> {"simulationConfigs", "modelHealthStatus"}]

\* Faulty variant: the entry of the secondary model is read.
ConsultedHealthSecondaryMutant(config, table) == table[config.secondaryModel]

\* modelHealthStatus[primaryModel] (lines 99-100): the one entry the handler
\* reads.
ConsultedHealth(config, table) == table[config.primaryModel]

\* The handler, by the response it sends.  lookups names the tables it read
\* on the way.
ResolveModel(body, table) ==
    IF Falsy(body)
    THEN [code |-> 400, error |-> <<"simulationId is required">>, lookups |-> {}]
    ELSE IF ConfigLookup(body.simulationId) = "own"
    THEN LET config == simulationConfigs[body.simulationId]
             health == ConsultedHealth(config, table)
         IN  IF IsHealthy(health)
             THEN PrimaryResponse(config, health)
             ELSE FallbackResponse(config, health)
    ELSE IF ConfigLookup(body.simulationId) = "inherited"
    \* config is the inherited property, which is truthy; config.primaryModel
    \* is undefined, modelHealthStatus[undefined] is undefined, and reading
    \* health.status throws a TypeError, which the framework answers with 500.
    THEN [code |-> 500, error |-> <<"TypeError">>,
          lookups |-> {"simulationConfigs", "modelHealthStatus"}]
    ELSE [code |-> 404, error |-> <<"Simulation config not found", body.simulationId>>,
          lookups |-> {"simulationConfigs"}]

NoResponse == [req |-> [present |-> FALSE, simulationId |-> ""], res |-> [code |-> 0]]

\* A request is handled: the handler is synchronous, so it reads the table and
\* responds in one step.
Resolve(body) ==
    /\ ~exited
    /\ listening
    /\ response' = [req |-> body, res |-> ResolveModel(body, modelHealthStatus)]
    /\ UNCHANGED <<listening, modelHealthStatus, cycle, started, armed, tleft,
                   exited, lastWriter, lastCompleted>>

----------------------------------------------------------------------------
(* Specifications *)

Init ==
    /\ listening = FALSE
    /\ modelHealthStatus = InitialHealth
    /\ cycle = [c \in 1..MaxCycles |-> NotStarted]
    /\ started = 0
    /\ armed = FALSE
    /\ tleft = 0
    /\ exited = FALSE
    /\ response = NoResponse
    /\ lastWriter = [m \in Models |-> 0]
    /\ lastCompleted = [id |-> 0, got |-> <<>>]

\* The program as shipped: the probe is mockCheckLLMHealth.
Next ==
    \/ AppListen(MockDelays)
    \/ Tick(MockDelays)
    \/ \E c \in 1..MaxCycles : ProbeComplete(c, MockOutcomes, MockDelays)
    \/ Advance
    \/ \E body \in RequestBodies : Resolve(body)

Spec == Init /\ [][Next]_vars

\* The program with an arbitrary probe collaborator.
NextProbe ==
    \/ AppListen(AnyDelays)
    \/ Tick(AnyDelays)
    \/ \E c \in 1..MaxCycles : ProbeComplete(c, AnyOutcomes, AnyDelays)
    \/ Advance
    \/ \E body \in RequestBodies : Resolve(body)

SpecProbe == Init /\ [][NextProbe]_vars

\* The program with a probe that may also reject or never respond.
NextFaulty ==
    \/ AppListen(FaultyDelays)
    \/ Tick(FaultyDelays)
    \/ \E c \in 1..MaxCycles : ProbeComplete(c, AnyOutcomes, FaultyDelays)
    \/ \E c \in 1..MaxCycles : ProbeReject(c)
    \/ Advance
    \/ \E body \in RequestBodies : Resolve(body)

SpecFaulty == Init /\ [][NextFaulty]_vars

\* The event loop runs a timer callback that is due and lets time pass; a
\* request need never arrive.
Fairness ==
    /\ WF_vars(AppListen(MockDelays))
    /\ WF_vars(Tick(MockDelays))
    /\ WF_vars(\E c \in 1..MaxCycles : ProbeComplete(c, MockOutcomes, MockDelays))
    /\ WF_vars(Advance)

SpecLive == Init /\ [][Next]_vars /\ Fairness

----------------------------------------------------------------------------
(* Vocabulary of the properties *)

\* Requests whose simulationId names a SimulationConfig.
KnownBodies ==
    {body \in RequestBodies :
        body.present /\ body.simulationId \in DOMAIN simulationConfigs}

ConfigOf(body) == simulationConfigs[body.simulationId]

\* The position of model m in the loop's order.
IndexOf(m) == CHOOSE i \in 1..Len(ModelOrder) : ModelOrder[i] = m

\* This step is the completion of the probe cycle c has in flight.
ProbeCompletes(c) ==
    /\ c \in Awaiting
    /\ cycle[c].rem = 0
    /\ cycle'[c] # cycle[c]

\* The outcome that probe resolved with, as the cycle recorded it.
OutcomeOf(c) ==
    IF cycle'[c].pc = "completed"
    THEN lastCompleted'.got[cycle[c].idx]
    ELSE cycle'[c].got[cycle[c].idx]

\* This step ends cycle c.
CycleCompletes(c) == cycle[c].pc = "awaiting" /\ cycle'[c].pc = "completed"

\* The first cycle has completed its probe of model m.
FirstCycleProbed(m) ==
    \/ cycle[1].pc = "completed"
    \/ cycle[1].pc = "awaiting" /\ cycle[1].idx > IndexOf(m)

\* The pair one probe completion writes for outcome o, by the classification
\* rule: both fields come from the same outcome.
WrittenPair(o) ==
    [status |-> IF o.success /\ o.latency < LATENCY_THRESHOLD_MS
                THEN "HEALTHY" ELSE "UNHEALTHY",
     latency |-> o.latency]

\* The outcome cycle w obtained for model m, as the cycle recorded it.
RecordedOutcome(w, m) ==
    IF cycle[w].pc = "awaiting" /\ Len(cycle[w].got) >= IndexOf(m)
    THEN cycle[w].got[IndexOf(m)]
    ELSE lastCompleted.got[IndexOf(m)]

\* The entries the table can hold with the shipped probe.
MockEntries ==
    {InitialHealth[m] : m \in Models} \cup {WrittenPair(o) : o \in MockOutcomes}

----------------------------------------------------------------------------
(* Properties *)

\* C1: for every simulationId that names a known config and every reachable
\* table, the result of resolve has fallbackOccurred = true if and only if the
\* status of the config's primary model is not HEALTHY (UNHEALTHY or UNKNOWN).
C1_FallbackLaw ==
    \A body \in KnownBodies :
        LET r == ResolveModel(body, modelHealthStatus)
        IN  /\ r.code = 200
            /\ r.fallbackOccurred
                 <=> modelHealthStatus[ConfigOf(body).primaryModel].status # "HEALTHY"

\* A request was answered with a fallback while its primary model is UNHEALTHY.
C1_Witness ==
    /\ response.res.code = 200
    /\ response.res.fallbackOccurred
    /\ modelHealthStatus[ConfigOf(response.req).primaryModel].status = "UNHEALTHY"
    /\ response.res = ResolveModel(response.req, modelHealthStatus)

\* C2: in every result, modelToUse is the primary model exactly when
\* fallbackOccurred is false and the secondary model exactly when it is true,
\* and is never a model that is neither.
C2_ModelMatchesFallback ==
    /\ \A body \in KnownBodies :
        LET r == ResolveModel(body, modelHealthStatus)
            config == ConfigOf(body)
        IN  /\ r.modelToUse \in {config.primaryModel, config.secondaryModel}
            /\ r.modelToUse = config.primaryModel <=> ~r.fallbackOccurred
            /\ r.modelToUse = config.secondaryModel <=> r.fallbackOccurred
    /\ response.res.code = 200 =>
        LET r == response.res
            config == ConfigOf(response.req)
        IN  /\ r.modelToUse \in {config.primaryModel, config.secondaryModel}
            /\ r.modelToUse = config.primaryModel <=> ~r.fallbackOccurred
            /\ r.modelToUse = config.secondaryModel <=> r.fallbackOccurred

\* One request was answered with its secondary model, as a fallback.
C2_Witness ==
    /\ response.res.code = 200
    /\ response.res.fallbackOccurred
    /\ response.res.modelToUse = ConfigOf(response.req).secondaryModel
    /\ response.res.details.status = "UNHEALTHY"
    /\ modelHealthStatus[ConfigOf(response.req).secondaryModel].status = "HEALTHY"

\* C3: whenever a probe of model M completes with outcome (success, latency),
\* the entry written for M is HEALTHY if and only if success is true and
\* latency is strictly below the threshold; every other outcome, success with
\* latency at or above the threshold included, writes UNHEALTHY.
C3_ClassificationLaw ==
    [][\A c \in 1..MaxCycles :
         ProbeCompletes(c) =>
            LET o == OutcomeOf(c)
                m == ModelOrder[cycle[c].idx]
            IN  /\ modelHealthStatus'[m].latency = o.latency
                /\ modelHealthStatus'[m].status =
                     IF o.success /\ o.latency < LATENCY_THRESHOLD_MS
                     THEN "HEALTHY" ELSE "UNHEALTHY"]_vars

\* A cycle obtained success with latency equal to the threshold for a model,
\* and the entry it wrote for it is UNHEALTHY.
C3_Witness ==
    \E i \in 1..Len(ModelOrder) :
        /\ lastCompleted.id # 0
        /\ lastCompleted.got[i].success
        /\ lastCompleted.got[i].latency = LATENCY_THRESHOLD_MS
        /\ lastWriter[ModelOrder[i]] = lastCompleted.id
        /\ modelHealthStatus[ModelOrder[i]] =
             [status |-> "UNHEALTHY", latency |-> LATENCY_THRESHOLD_MS]

\* C4: in every reachable state at most one execution of
\* updateAllModelsHealth is in progress, for any probe duration.
C4_NoOverlappingCycles == Cardinality(Awaiting) <= 1

\* C5: when a cycle completes it has attempted every model, and if in it the
\* probe of X failed and the probe of Y succeeded with latency under the
\* threshold, X's entry is UNHEALTHY and Y's entry is HEALTHY.
C5_CycleCompletesDespiteFailure ==
    [][\A c \in 1..MaxCycles :
         CycleCompletes(c) =>
            LET got == lastCompleted'.got
            IN  /\ lastCompleted'.id = c
                /\ Len(got) = Len(ModelOrder)
                /\ \A x, y \in 1..Len(ModelOrder) :
                     (/\ ~got[x].success
                      /\ got[y].success
                      /\ got[y].latency < LATENCY_THRESHOLD_MS)
                     => /\ modelHealthStatus'[ModelOrder[x]].status = "UNHEALTHY"
                        /\ modelHealthStatus'[ModelOrder[y]].status = "HEALTHY"]_vars

\* A cycle has completed in which the first model's probe failed and the
\* second model's probe succeeded, and the table shows both.
C5_Witness ==
    /\ lastCompleted.id # 0
    /\ ~lastCompleted.got[1].success
    /\ lastCompleted.got[2].success
    /\ \A m \in Models : lastWriter[m] = lastCompleted.id
    /\ modelHealthStatus[ModelOrder[1]].status = "UNHEALTHY"
    /\ modelHealthStatus[ModelOrder[2]].status = "HEALTHY"

\* C6: a missing or empty simulationId yields 400 without any lookup; a
\* non-empty simulationId with no matching SimulationConfig yields 404; every
\* other simulationId yields a result.
C6_ResolvePartition ==
    response.res.code # 0 =>
        IF Falsy(response.req)
        THEN response.res.code = 400 /\ response.res.lookups = {}
        ELSE IF response.req.simulationId \notin DOMAIN simulationConfigs
        THEN response.res.code = 404
        ELSE response.res.code = 200

\* C7: the status of M is UNKNOWN if and only if no probe of M has ever
\* completed, and once it has left UNKNOWN it never becomes UNKNOWN again.
C7_UnknownOnlyBeforeFirstProbe ==
    /\ [](\A m \in Models :
            modelHealthStatus[m].status = "UNKNOWN" <=> lastWriter[m] = 0)
    /\ [][\A m \in Models :
            modelHealthStatus[m].status # "UNKNOWN"
            => modelHealthStatus'[m].status # "UNKNOWN"]_vars

\* The first model has been probed, with a failure, and the second has not.
C7_Witness ==
    /\ lastWriter[ModelOrder[1]] = 1
    /\ modelHealthStatus[ModelOrder[1]].status = "UNHEALTHY"
    /\ lastWriter[ModelOrder[2]] = 0
    /\ modelHealthStatus[ModelOrder[2]].status = "UNKNOWN"

\* C8: at the moment a cycle completes, the status of every model is the
\* classification of the outcome that cycle itself obtained for it.
C8_TableReflectsCompletedCycle ==
    [][\A c \in 1..MaxCycles :
         CycleCompletes(c) =>
            /\ lastCompleted'.id = c
            /\ \A i \in 1..Len(ModelOrder) :
                 LET o == lastCompleted'.got[i]
                 IN  modelHealthStatus'[ModelOrder[i]] =
                       [status |-> IF o.success /\ o.latency < LATENCY_THRESHOLD_MS
                                   THEN "HEALTHY" ELSE "UNHEALTHY",
                        latency |-> o.latency]]_vars

\* The second cycle was the last to complete, with a success for the first
\* model and a failure for the second, and the table shows both.
C8_Witness ==
    /\ lastCompleted.id = 2
    /\ \A m \in Models : lastWriter[m] = 2
    /\ lastCompleted.got[1].success /\ ~lastCompleted.got[2].success
    /\ modelHealthStatus[ModelOrder[1]].status = "HEALTHY"
    /\ modelHealthStatus[ModelOrder[2]].status = "UNHEALTHY"

\* C9: for every model M, the writes to M's entry happen in cycle order: the
\* write of cycle N+1 finds the entry last written by cycle N.
C9_WritesOrderedByCycle ==
    [][\A c \in 1..MaxCycles :
         ProbeCompletes(c) =>
            LET m == ModelOrder[cycle[c].idx]
            IN  lastWriter[m] = c - 1 /\ lastWriter'[m] = c]_vars

\* The second cycle has written the first model's entry over the first
\* cycle's, and not yet the second model's.
C9_Witness ==
    /\ lastWriter[ModelOrder[1]] = 2
    /\ lastWriter[ModelOrder[2]] = 1
    /\ cycle[2].pc = "awaiting"

\* C10 as stated: a request handled before the first cycle has finished is
\* answered from status UNKNOWN, with the secondary model and
\* fallbackOccurred = true.
C10_UnknownUntilFirstCycleEnds ==
    [][(/\ response' # response
        /\ response'.res.code = 200
        /\ cycle[1].pc # "completed")
       => /\ response'.res.details.status = "UNKNOWN"
          /\ response'.res.fallbackOccurred
          /\ response'.res.modelToUse = ConfigOf(response'.req).secondaryModel]_vars

\* C10 amended: a request handled before the first cycle has completed its
\* probe of the request's primary model is answered from status UNKNOWN, with
\* the secondary model and fallbackOccurred = true.
C10_UnknownUntilPrimaryProbed ==
    \A body \in KnownBodies :
        (listening /\ ~FirstCycleProbed(ConfigOf(body).primaryModel)) =>
            LET r == ResolveModel(body, modelHealthStatus)
            IN  /\ r.code = 200
                /\ r.details = [status |-> "UNKNOWN", latency |-> Null]
                /\ r.fallbackOccurred
                /\ r.modelToUse = ConfigOf(body).secondaryModel

\* A request whose primary model is the second in the loop's order was
\* answered from UNKNOWN while the first cycle, having written the first
\* model's entry, awaits its second probe.
C10_Witness ==
    /\ cycle[1].pc = "awaiting" /\ cycle[1].idx = 2
    /\ modelHealthStatus[ModelOrder[1]].status # "UNKNOWN"
    /\ response.res.code = 200
    /\ ConfigOf(response.req).primaryModel = ModelOrder[2]
    /\ response.res.details.status = "UNKNOWN"
    /\ response.res.fallbackOccurred
    /\ response.res.modelToUse = ModelOrder[1]

\* C11: a probe that rejects is a failure of that model only: the cycle goes
\* on and the monitor keeps running; no probe error leaves the cycle.  So no
\* call of updateAllModelsHealth ends rejected and the process does not
\* terminate.
C11_ProbeErrorContained ==
    /\ ~exited
    /\ \A c \in DOMAIN cycle : cycle[c].pc # "rejected"

\* C12: a probe that never responds does not stall its cycle: whatever a
\* cycle awaits is due within a bound.
C12_NoStalledCycle == \A c \in Awaiting : cycle[c].rem # Never

\* C13: under fair timers a further cycle eventually starts, whatever the
\* earlier probes reported (stated for the cycles within the bound).
C13_CyclesRecur ==
    \A n \in 0..(MaxCycles - 1) : (started = n) ~> (started > n)

\* A third cycle has started after a cycle in which a probe failed.
C13_Witness ==
    /\ started >= 3
    /\ lastCompleted.id = 2
    /\ ~lastCompleted.got[1].success
    /\ cycle[3].pc = "awaiting"

\* C14: under every interleaving the (status, latency) pair a resolve returns
\* in details is the initial pair or the pair one single probe completion
\* wrote, never the status of one write with the latency of another.
C14_NoTornEntry ==
    /\ \A body \in KnownBodies :
        LET r == ResolveModel(body, modelHealthStatus)
            p == ConfigOf(body).primaryModel
            w == lastWriter[p]
        IN  r.details = IF w = 0 THEN InitialHealth[p]
                        ELSE WrittenPair(RecordedOutcome(w, p))
    /\ response.res.code = 200 => response.res.details \in MockEntries

\* A response holds the pair of an earlier write while the table already
\* holds the pair of a later one.
C14_Witness ==
    /\ response.res.code = 200
    /\ response.res.details.status = "HEALTHY"
    /\ modelHealthStatus[ConfigOf(response.req).primaryModel].status = "UNHEALTHY"
    /\ lastWriter[ConfigOf(response.req).primaryModel] = 2

\* C15: a resolve call changes no table entry, whatever its input; only a
\* probe completion changes the table, and it changes only the entry of the
\* model it probed.
C15_OnlyProbeCompletionWrites ==
    [][/\ response' # response => modelHealthStatus' = modelHealthStatus
       /\ modelHealthStatus' # modelHealthStatus =>
            \E c \in 1..MaxCycles :
                /\ ProbeCompletes(c)
                /\ response' = response
                /\ \A m \in Models \ {ModelOrder[cycle[c].idx]} :
                     modelHealthStatus'[m] = modelHealthStatus[m]]_vars

\* A probe has written the first model's entry, the second model's entry is
\* as it was, and an unknown simulationId has been answered.
C15_Witness ==
    /\ response.res.code = 404
    /\ lastWriter[ModelOrder[1]] = 1
    /\ modelHealthStatus[ModelOrder[1]] # InitialHealth[ModelOrder[1]]
    /\ modelHealthStatus[ModelOrder[2]] = InitialHealth[ModelOrder[2]]

\* C16: resolve depends on the config and the primary model's entry alone:
\* replacing the secondary model's entry by any other leaves the whole result
\* the same; a fallback returns the secondary model whatever its entry, and
\* details is the primary's entry.
C16_SecondaryNotConsulted ==
    \A body \in KnownBodies :
        LET config == ConfigOf(body)
            r == ResolveModel(body, modelHealthStatus)
        IN  /\ \A e \in MockEntries :
                 ResolveModel(body,
                    [modelHealthStatus EXCEPT ![config.secondaryModel] = e]) = r
            /\ r.fallbackOccurred => r.modelToUse = config.secondaryModel
            /\ r.details = modelHealthStatus[config.primaryModel]

\* A request is answered with the secondary model while the secondary
\* model's own entry is UNHEALTHY.
C16_Witness ==
    /\ response.res.code = 200
    /\ response.res = ResolveModel(response.req, modelHealthStatus)
    /\ response.res.fallbackOccurred
    /\ modelHealthStatus[response.res.modelToUse].status = "UNHEALTHY"
    /\ response.res.details = modelHealthStatus[ConfigOf(response.req).primaryModel]

\* C17: a cycle has one probe in flight, with every earlier probe of the
\* cycle completed; the probe of the next model starts in the step in which
\* the previous model's probe completes and its entry is written.
C17_SequentialProbing ==
    /\ [](\A c \in Awaiting : Len(cycle[c].got) = cycle[c].idx - 1)
    /\ [][\A c \in 1..MaxCycles :
            (/\ cycle[c].pc = "awaiting"
             /\ cycle'[c].pc = "awaiting"
             /\ cycle'[c].idx # cycle[c].idx)
            => LET i == cycle[c].idx
               IN  /\ cycle[c].rem = 0
                   /\ cycle'[c].idx = i + 1
                   /\ Len(cycle'[c].got) = i
                   /\ lastWriter'[ModelOrder[i]] = c
                   /\ modelHealthStatus'[ModelOrder[i]]
                        = WrittenPair(cycle'[c].got[i])]_vars

\* The first cycle awaits its second probe, and the first model's entry
\* holds the pair of the outcome the cycle recorded.
C17_Witness ==
    /\ cycle[1].pc = "awaiting"
    /\ cycle[1].idx = 2
    /\ Len(cycle[1].got) = 1
    /\ modelHealthStatus[ModelOrder[1]] = WrittenPair(cycle[1].got[1])
    /\ modelHealthStatus[ModelOrder[2]] = InitialHealth[ModelOrder[2]]

\* C18: for every model the status is UNKNOWN exactly when the latency is
\* null, and HEALTHY implies a non-null latency strictly below the threshold.
C18_EntryInvariant ==
    \A m \in Models :
        LET entry == modelHealthStatus[m]
        IN  /\ entry.status = "UNKNOWN" <=> entry.latency = Null
            /\ entry.status = "HEALTHY" =>
                 /\ entry.latency # Null
                 /\ entry.latency >= 0
                 /\ entry.latency < LATENCY_THRESHOLD_MS

\* One entry is HEALTHY just below the threshold and the other is UNHEALTHY
\* with the threshold itself as latency.
C18_Witness ==
    /\ modelHealthStatus[ModelOrder[1]] =
         [status |-> "HEALTHY", latency |-> LATENCY_THRESHOLD_MS - 1]
    /\ modelHealthStatus[ModelOrder[2]] =
         [status |-> "UNHEALTHY", latency |-> LATENCY_THRESHOLD_MS]

\* C19: every result agrees with one table state: details is the entry of the
\* primary model as last written when the request is handled, and
\* fallbackOccurred is true exactly when details.status is not HEALTHY.
C19_ResultCoherent ==
    /\ \A body \in KnownBodies :
        LET r == ResolveModel(body, modelHealthStatus)
        IN  /\ r.details = modelHealthStatus[ConfigOf(body).primaryModel]
            /\ r.fallbackOccurred <=> r.details.status # "HEALTHY"
    /\ response.res.code = 200 =>
        (response.res.fallbackOccurred <=> response.res.details.status # "HEALTHY")

\* A request is answered with the primary model from the entry the second
\* cycle wrote.
C19_Witness ==
    /\ response.res.code = 200
    /\ response.res = ResolveModel(response.req, modelHealthStatus)
    /\ ~response.res.fallbackOccurred
    /\ response.res.details.status = "HEALTHY"
    /\ lastWriter[ConfigOf(response.req).primaryModel] = 2

\* C20: the interval timer is armed only after the initial cycle has
\* completed, so no periodic cycle starts while the initial cycle is in
\* progress, and none ever starts if the initial cycle never completes.
C20_TimerArmedAfterInitialCycle ==
    /\ armed => cycle[1].pc = "completed"
    /\ started > 1 => cycle[1].pc = "completed"
    /\ \A c \in DOMAIN cycle :
         (c > 1 /\ cycle[c].pc # "notStarted") => cycle[1].pc = "completed"

\* The initial cycle awaits a probe that never responds: the timer is not
\* armed and no other cycle has started.
C20_Witness ==
    /\ cycle[1].pc = "awaiting"
    /\ cycle[1].rem = Never
    /\ cycle[1].idx = 2
    /\ ~armed
    /\ started = 1
    /\ response.res.code = 200

====
